---- MODULE Spec2Model ----
(***************************************************************************)
(* A model of src/src/App.tsx: the worksheet (rows), the edit focus        *)
(* (editingCell), the memoized duplicate index (duplicateLookup) and the   *)
(* localStorage entry the worksheet is written through to (stored).        *)
(*                                                                         *)
(* Cell text is a sequence of one-character strings, so that trim,         *)
(* toLowerCase and the clipboard split are computed character by           *)
(* character.  Row and column positions are 0-based as in the source; the  *)
(* worksheet itself is a TLA+ sequence, so row r of the source is          *)
(* rows[r + 1].                                                            *)
(***************************************************************************)
EXTENDS Integers, Sequences, FiniteSets, TLC

VARIABLES rows, editingCell, duplicateLookup, stored, op, steps

vars == <<rows, editingCell, duplicateLookup, stored, op, steps>>

(***************************************************************************)
(* Bounds of the exploration.                                              *)
(***************************************************************************)
\* the number of events (handler runs) explored after startup
MaxSteps == 3
\* no event that would grow the worksheet past MaxRows rows is explored
MaxRows == 110

(***************************************************************************)
(* Program constants.                                                      *)
(***************************************************************************)
columnOrder ==
    << "Keyword", "Prefix", "Suffix", "Middle", "City",
       "FirstName", "3 letter", "4 letter", "Extensions" >>

ColumnKey == { columnOrder[i] : i \in 1..Len(columnOrder) }

\* columnOrder.length
ColumnCount == Len(columnOrder)

INITIAL_ROW_COUNT == 8

\* the argument of the only call of addRows
ADD_ROWS_COUNT == 100

\* columnOrder[colIdx], colIdx 0-based
ColumnAt(colIdx) == columnOrder[colIdx + 1]

(***************************************************************************)
(* Strings.                                                                *)
(***************************************************************************)
EmptyText == << >>

\* the characters String.prototype.trim removes, among those modelled
WhiteSpace == { " ", "\t", "\n", "\r" }

RECURSIVE TrimStart(_)
TrimStart(s) ==
    IF s # << >> /\ Head(s) \in WhiteSpace THEN TrimStart(Tail(s)) ELSE s

RECURSIVE TrimEnd(_)
TrimEnd(s) ==
    IF s # << >> /\ s[Len(s)] \in WhiteSpace
    THEN TrimEnd(SubSeq(s, 1, Len(s) - 1))
    ELSE s

\* String.prototype.trim
Trim(s) == TrimEnd(TrimStart(s))

LowerChar(ch) ==
    CASE ch = "A" -> "a"
      [] ch = "B" -> "b"
      [] OTHER -> ch

\* String.prototype.toLowerCase
RECURSIVE ToLowerCase(_)
ToLowerCase(s) ==
    IF s = << >> THEN << >>
    ELSE << LowerChar(Head(s)) >> \o ToLowerCase(Tail(s))

\* a normalization that lower-cases without trimming
normalizeValueNoTrim(value) == ToLowerCase(value)

normalizeValue(value) == ToLowerCase(Trim(value))

(***************************************************************************)
(* Rows.  A row is a JS object: a function from its own keys to text.      *)
(***************************************************************************)
createEmptyRow == [column \in ColumnKey |-> EmptyText]

\* Array.from({ length: n }, () => createEmptyRow())
EmptyRows(n) == [i \in 1..n |-> createEmptyRow]

\* { ...row, [column]: value }
SpreadSet(row, column, value) ==
    [k \in (DOMAIN row) \cup {column} |-> IF k = column THEN value ELSE row[k]]

(***************************************************************************)
(* localStorage.  The stored item is absent, the empty string, text that   *)
(* JSON.parse rejects, or JSON text; JSON text is modelled by the value it *)
(* parses to.  A JSON value is [t, items]: items are the elements of an    *)
(* array.  An element is [t, fields] (fields: the members of an object).   *)
(* A member is [t, s]: s is what String(member) returns.                   *)
(***************************************************************************)
NoJson == [t |-> "none", items |-> << >>]

JString(text) == [t |-> "string", s |-> text]
JNumber(digits) == [t |-> "number", s |-> digits]
JNullMember == [t |-> "null", s |-> EmptyText]

JObject(fields) == [t |-> "object", fields |-> fields]
JNullEntry == [t |-> "null", fields |-> << >>]
JNumberEntry == [t |-> "number", fields |-> << >>]

JArray(items) == [kind |-> "json", json |-> [t |-> "array", items |-> items]]
JNotArray == [kind |-> "json", json |-> [t |-> "object", items |-> << >>]]
Absent == [kind |-> "absent", json |-> NoJson]
EmptyItem == [kind |-> "empty", json |-> NoJson]
Malformed == [kind |-> "malformed", json |-> NoJson]
\* the raw field of an event that read nothing from the store
NoRaw == [kind |-> "none", json |-> NoJson]

\* JSON.parse(JSON.stringify(rows)): strings and key order survive unchanged
Stringify(rws) ==
    JArray([i \in 1..Len(rws) |->
              JObject([k \in DOMAIN rws[i] |-> JString(rws[i][k])])])

\* String(entry[column] ?? '')
MemberText(entry, column) ==
    IF entry.t = "object" /\ column \in DOMAIN entry.fields
    THEN (IF entry.fields[column].t = "null" THEN EmptyText
          ELSE entry.fields[column].s)
    ELSE EmptyText

\* a loader that copies the stored entry's own keys into the row
LoadEntrySpreadingEntry(entry) ==
    [k \in ColumnKey \cup (IF entry.t = "object" THEN DOMAIN entry.fields ELSE {}) |->
        Trim(MemberText(entry, k))]

\* a loader that keeps the stored text as it is: no trim()
LoadEntryUntrimmed(entry) ==
    [k \in ColumnKey |-> MemberText(entry, k)]

\* the body of parsed.map: createEmptyRow, then every schema column assigned
LoadEntry(entry) ==
    [k \in (DOMAIN createEmptyRow) \cup ColumnKey |->
        IF k \in ColumnKey THEN Trim(MemberText(entry, k)) ELSE createEmptyRow[k]]

FreshRows == EmptyRows(INITIAL_ROW_COUNT)

\* a loader that reads a null entry as an entry without members
\* (entry?.[column]) instead of throwing into the catch
LoadRowsNullTolerant(raw) ==
    IF raw.kind \in {"absent", "empty"} THEN FreshRows
    ELSE IF raw.kind = "malformed" THEN FreshRows
    ELSE IF raw.json.t # "array" \/ Len(raw.json.items) = 0 THEN FreshRows
    ELSE [i \in 1..Len(raw.json.items) |-> LoadEntry(raw.json.items[i])]

\* the useState initializer of rows
LoadRows(raw) ==
    IF raw.kind \in {"absent", "empty"} THEN FreshRows
    ELSE IF raw.kind = "malformed" THEN FreshRows
    ELSE IF raw.json.t # "array" \/ Len(raw.json.items) = 0 THEN FreshRows
    ELSE IF \E i \in 1..Len(raw.json.items) : raw.json.items[i].t = "null"
         THEN FreshRows
    ELSE [i \in 1..Len(raw.json.items) |-> LoadEntry(raw.json.items[i])]

\* the useEffect on [rows]: setItem, a throw is caught and logged
PersistEffect(prevStored, rws, writeOk) ==
    IF writeOk THEN Stringify(rws) ELSE prevStored

(***************************************************************************)
(* The duplicate index.                                                    *)
(***************************************************************************)
CellText(rws, rowIdx, colIdx) == rws[rowIdx + 1][ColumnAt(colIdx)]

\* the coordinates rows.forEach / columnOrder.forEach visit, in visiting order
CellCoords(rws) ==
    [i \in 1..(Len(rws) * ColumnCount) |->
        [row |-> (i - 1) \div ColumnCount, colIdx |-> (i - 1) % ColumnCount]]

\* the Map of the useMemo: every non-empty normalized value of the worksheet,
\* mapped to the coordinates holding it, in visiting order
BuildLookup(rws) ==
    LET normalizedAt(coord) == normalizeValue(CellText(rws, coord.row, coord.colIdx))
        \* if (!normalized) return
        kept == SelectSeq(CellCoords(rws), LAMBDA coord : normalizedAt(coord) # EmptyText)
        keys == { normalizedAt(kept[i]) : i \in 1..Len(kept) }
    IN  [key \in keys |-> SelectSeq(kept, LAMBDA coord : normalizedAt(coord) = key)]

\* useMemo(..., []): computed on the first render only
MemoLookupNoDeps(prevLookup, rws, replaced) == prevLookup

\* useMemo(..., [rows]): recomputed when the rows array was replaced
MemoLookup(prevLookup, rws, replaced) ==
    IF replaced THEN BuildLookup(rws) ELSE prevLookup

\* matches.length > 0 in place of matches.length > 1
isDuplicateCellAnyMatch(rws, lookup, rowIdx, column) ==
    LET normalized == normalizeValue(rws[rowIdx + 1][column])
    IN  IF normalized = EmptyText THEN FALSE
        ELSE normalized \in DOMAIN lookup /\ Len(lookup[normalized]) > 0

isDuplicateCell(rws, lookup, rowIdx, column) ==
    LET normalized == normalizeValue(rws[rowIdx + 1][column])
    IN  IF normalized = EmptyText THEN FALSE
        ELSE normalized \in DOMAIN lookup /\ Len(lookup[normalized]) > 1

(***************************************************************************)
(* The setRows updaters, as functions of the previous worksheet.           *)
(***************************************************************************)
\* a resize to exactly targetRow + 1 rows
ensureRowExistsResizing(prev, targetRow) ==
    IF targetRow < Len(prev) THEN SubSeq(prev, 1, targetRow + 1)
    ELSE prev \o EmptyRows(targetRow - Len(prev) + 1)

\* rowsToAdd without the + 1
ensureRowExistsOneShort(prev, targetRow) ==
    IF targetRow < Len(prev) THEN prev
    ELSE prev \o EmptyRows(targetRow - Len(prev))

ensureRowExists(prev, targetRow) ==
    IF targetRow < Len(prev) THEN prev
    ELSE prev \o EmptyRows(targetRow - Len(prev) + 1)

addRows(prev, count) == prev \o EmptyRows(count)

updateCellValue(prev, rowIdx, column, value) ==
    [prev EXCEPT ![rowIdx + 1] = SpreadSet(prev[rowIdx + 1], column, value)]

\* a loop that pushes once more than needed: while (targetRow + 1 >= next.length)
RECURSIVE PushUntilOneMore(_, _)
PushUntilOneMore(next, targetRow) ==
    IF targetRow + 1 >= Len(next)
    THEN PushUntilOneMore(Append(next, createEmptyRow), targetRow)
    ELSE next

\* while (targetRow >= next.length) next.push(createEmptyRow())
RECURSIVE PushUntil(_, _)
PushUntil(next, targetRow) ==
    IF targetRow >= Len(next) THEN PushUntil(Append(next, createEmptyRow), targetRow)
    ELSE next

\* a paste that wraps an out-of-range column back to column 0 onwards
RECURSIVE PasteValuesWrapping(_, _, _, _)
PasteValuesWrapping(updatedRow, startCol, gridRow, colOffset) ==
    IF colOffset >= Len(gridRow) THEN updatedRow
    ELSE LET targetCol == (startCol + colOffset) % ColumnCount
             value == gridRow[colOffset + 1]
         IN  PasteValuesWrapping(SpreadSet(updatedRow, ColumnAt(targetCol), value),
                                 startCol, gridRow, colOffset + 1)

\* a paste that merges: the value is added to the text the cell holds
RECURSIVE PasteValuesMerging(_, _, _, _)
PasteValuesMerging(updatedRow, startCol, gridRow, colOffset) ==
    IF colOffset >= Len(gridRow) THEN updatedRow
    ELSE LET targetCol == startCol + colOffset
             value == gridRow[colOffset + 1]
         IN  IF targetCol < 0 \/ targetCol >= ColumnCount
             THEN PasteValuesMerging(updatedRow, startCol, gridRow, colOffset + 1)
             ELSE PasteValuesMerging(
                      SpreadSet(updatedRow, ColumnAt(targetCol),
                                updatedRow[ColumnAt(targetCol)] \o value),
                      startCol, gridRow, colOffset + 1)

\* gridRow.forEach over the values from colOffset on
RECURSIVE PasteValues(_, _, _, _)
PasteValues(updatedRow, startCol, gridRow, colOffset) ==
    IF colOffset >= Len(gridRow) THEN updatedRow
    ELSE LET targetCol == startCol + colOffset
             value == gridRow[colOffset + 1]
         IN  IF targetCol < 0 \/ targetCol >= ColumnCount
             THEN PasteValues(updatedRow, startCol, gridRow, colOffset + 1)
             ELSE PasteValues(SpreadSet(updatedRow, ColumnAt(targetCol), value),
                              startCol, gridRow, colOffset + 1)

\* grid.forEach over the rows from rowOffset on
RECURSIVE PasteRows(_, _, _, _, _)
PasteRows(next, startRow, startCol, grid, rowOffset) ==
    IF rowOffset >= Len(grid) THEN next
    ELSE LET targetRow == startRow + rowOffset
             grown == PushUntil(next, targetRow)
             updatedRow == PasteValues(grown[targetRow + 1], startCol,
                                       grid[rowOffset + 1], 0)
         IN  PasteRows([grown EXCEPT ![targetRow + 1] = updatedRow],
                       startRow, startCol, grid, rowOffset + 1)

applyPasteData(prev, startRow, startCol, grid) ==
    PasteRows(prev, startRow, startCol, grid, 0)

(***************************************************************************)
(* The paste parser: text.split(/\r\n|\n|\r/) and row.split('\t').         *)
(***************************************************************************)
\* the pieces of s between separators, cur being the piece in progress
RECURSIVE SplitLinesFrom(_, _, _)
SplitLinesFrom(s, cur, acc) ==
    IF s = << >> THEN Append(acc, cur)
    ELSE IF Len(s) >= 2 /\ s[1] = "\r" /\ s[2] = "\n"
         THEN SplitLinesFrom(SubSeq(s, 3, Len(s)), << >>, Append(acc, cur))
    ELSE IF s[1] \in {"\n", "\r"}
         THEN SplitLinesFrom(Tail(s), << >>, Append(acc, cur))
    ELSE SplitLinesFrom(Tail(s), Append(cur, s[1]), acc)

SplitLines(text) == SplitLinesFrom(text, << >>, << >>)

RECURSIVE SplitTabsFrom(_, _, _)
SplitTabsFrom(s, cur, acc) ==
    IF s = << >> THEN Append(acc, cur)
    ELSE IF s[1] = "\t"
         THEN SplitTabsFrom(Tail(s), << >>, Append(acc, cur))
    ELSE SplitTabsFrom(Tail(s), Append(cur, s[1]), acc)

SplitTabs(row) == SplitTabsFrom(row, << >>, << >>)

\* the grid handlePaste hands to applyPasteData
ParseClipboard(text) ==
    LET lines == SplitLines(text)
    IN  [i \in 1..Len(lines) |-> SplitTabs(lines[i])]

(***************************************************************************)
(* Inputs of the exploration.                                              *)
(***************************************************************************)
\* what the store may hold when the page is opened
StoredValues ==
    { Absent, EmptyItem, Malformed, JNotArray, JArray(<< >>),
      JArray(<< JObject([Keyword |-> JString(<<"a">>)]), JNullEntry >>),
      JArray(<< JNumberEntry >>),
      JArray(<< JObject([Keyword |-> JString(<<" ", "a">>),
                         City |-> JNumber(<<"1">>),
                         Prefix |-> JNullMember,
                         Notes |-> JString(<<"b">>)]) >>),
      Stringify(<< SpreadSet(createEmptyRow, "Keyword", <<" ", "A">>),
                   SpreadSet(createEmptyRow, "City", <<"a", " ">>) >>) }

\* event.target.value of a change event
EditValues == { <<"a">>, <<"A", " ">>, <<"b">> }

\* clipboardData.getData('text/plain')
Clipboards ==
    { << >>,
      <<"a", "\t", "b", "\n", "A", "\t", "b">>,
      <<" ", "\r", "\n", "\t", "b", "\r">> }

\* arguments <<targetRow, targetCol>> of focusCell
FocusTargets == { <<-1, 2>>, <<0, -1>>, <<0, 9>>, <<10, 2>> }

(***************************************************************************)
(* State.                                                                  *)
(***************************************************************************)
\* editingCell = null
Null == [row |-> -1, colIdx |-> -1]

Min(a, b) == IF a < b THEN a ELSE b
Max(a, b) == IF a > b THEN a ELSE b

\* the event just handled: its handler, the cell or arguments it was given,
\* its text, and what became of the write to the store
Event(name, row, col, text, shift) ==
    [name |-> name, row |-> row, col |-> col, text |-> text, shift |-> shift,
     write |-> "none", raw |-> NoRaw]

\* setItem returns (TRUE), or throws (FALSE: quota, storage disabled)
WriteOutcomes == BOOLEAN

Init ==
    \E raw \in StoredValues, writeOk \in WriteOutcomes :
        /\ rows = LoadRows(raw)
        /\ editingCell = Null
        /\ duplicateLookup = BuildLookup(rows)
        /\ stored = PersistEffect(raw, rows, writeOk)
        /\ op = [Event("startup", -1, -1, << >>, FALSE) EXCEPT
                    !.raw = raw, !.write = IF writeOk THEN "ok" ELSE "failed"]
        /\ steps = 0

\* a commit that rolls the worksheet and the focus back when the write throws
CommitRollingBack(nextRows, replaced, nextEditing, event) ==
    /\ steps < MaxSteps
    /\ Len(nextRows) <= MaxRows
    /\ steps' = steps + 1
    /\ \E writeOk \in (IF replaced THEN WriteOutcomes ELSE {TRUE}) :
          /\ rows' = (IF writeOk THEN nextRows ELSE rows)
          /\ editingCell' = (IF writeOk THEN nextEditing ELSE editingCell)
          /\ duplicateLookup' = MemoLookup(duplicateLookup, rows', replaced)
          /\ stored' = (IF replaced THEN PersistEffect(stored, nextRows, writeOk)
                        ELSE stored)
          /\ op' = [event EXCEPT !.write = IF ~replaced THEN "none"
                                           ELSE IF writeOk THEN "ok" ELSE "failed"]

\* The state updates a handler queued, the render that follows and its
\* effects.  replaced: setRows was given a new array.
Commit(nextRows, replaced, nextEditing, event) ==
    /\ steps < MaxSteps
    /\ Len(nextRows) <= MaxRows
    /\ steps' = steps + 1
    /\ rows' = nextRows
    /\ editingCell' = nextEditing
    /\ duplicateLookup' = MemoLookup(duplicateLookup, nextRows, replaced)
    /\ \E writeOk \in (IF replaced THEN WriteOutcomes ELSE {TRUE}) :
          /\ stored' = (IF replaced THEN PersistEffect(stored, nextRows, writeOk)
                        ELSE stored)
          /\ op' = [event EXCEPT !.write = IF ~replaced THEN "none"
                                           ELSE IF writeOk THEN "ok" ELSE "failed"]

(***************************************************************************)
(* Handlers.                                                               *)
(***************************************************************************)
\* a focusCell that does not call ensureRowExists
FocusRowsNotGrowing(rws, targetRow) == rws

\* what focusCell leaves in rows and editingCell
FocusRows(rws, targetRow) ==
    IF targetRow < 0 THEN rws ELSE ensureRowExists(rws, targetRow)

\* setEditingCell with targetCol as given
FocusEditingUnclamped(editing, targetRow, targetCol) ==
    IF targetRow < 0 THEN editing
    ELSE [row |-> targetRow, colIdx |-> targetCol]

FocusEditing(editing, targetRow, targetCol) ==
    IF targetRow < 0 THEN editing
    ELSE [row |-> targetRow,
          colIdx |-> Min(Max(targetCol, 0), ColumnCount - 1)]

\* focusCell(targetRow, targetCol) as run while handling event
DoFocus(event, targetRow, targetCol) ==
    Commit(FocusRows(rows, targetRow),
           targetRow >= Len(rows),
           FocusEditing(editingCell, targetRow, targetCol),
           event)

\* focusCell called from onClick / onFocus of a cell, or by a caller
FocusCell(targetRow, targetCol) ==
    /\ steps < MaxSteps
    /\ DoFocus(Event("focusCell", targetRow, targetCol, << >>, FALSE),
               targetRow, targetCol)

\* onChange of the cell editor
Change(value) ==
    /\ editingCell # Null
    /\ Commit(updateCellValue(rows, editingCell.row, ColumnAt(editingCell.colIdx), value),
              TRUE, editingCell,
              Event("change", editingCell.row, editingCell.colIdx, value, FALSE))

\* an Enter that focuses the cell it was pressed in
KeyEnterStaying ==
    /\ editingCell # Null
    /\ DoFocus(Event("enter", editingCell.row, editingCell.colIdx, << >>, FALSE),
               editingCell.row, editingCell.colIdx)

\* handleKeyDown, event.key === 'Enter'
KeyEnter ==
    /\ editingCell # Null
    /\ DoFocus(Event("enter", editingCell.row, editingCell.colIdx, << >>, FALSE),
               editingCell.row + 1, editingCell.colIdx)

\* a forward wrap that stays on the row
TabTargetSameRow(rowIdx, colIdx, shiftKey) ==
    LET direction == IF shiftKey THEN -1 ELSE 1
        nextCol == colIdx + direction
    IN  IF nextCol >= ColumnCount THEN [row |-> rowIdx, colIdx |-> 0]
        ELSE IF nextCol < 0
             THEN [row |-> IF rowIdx - 1 > 0 THEN rowIdx - 1 ELSE 0,
                   colIdx |-> ColumnCount - 1]
        ELSE [row |-> rowIdx, colIdx |-> nextCol]

\* a backward wrap to rowIdx - 1 without the floor at 0
TabTargetNoFloor(rowIdx, colIdx, shiftKey) ==
    LET direction == IF shiftKey THEN -1 ELSE 1
        nextCol == colIdx + direction
    IN  IF nextCol >= ColumnCount THEN [row |-> rowIdx + 1, colIdx |-> 0]
        ELSE IF nextCol < 0
             THEN [row |-> rowIdx - 1, colIdx |-> ColumnCount - 1]
        ELSE [row |-> rowIdx, colIdx |-> nextCol]

\* the cell handleKeyDown passes to focusCell on Tab
TabTarget(rowIdx, colIdx, shiftKey) ==
    LET direction == IF shiftKey THEN -1 ELSE 1
        nextCol == colIdx + direction
    IN  IF nextCol >= ColumnCount THEN [row |-> rowIdx + 1, colIdx |-> 0]
        ELSE IF nextCol < 0
             THEN [row |-> Max(0, rowIdx - 1), colIdx |-> ColumnCount - 1]
        ELSE [row |-> rowIdx, colIdx |-> nextCol]

\* handleKeyDown, event.key === 'Tab'
KeyTab(shiftKey) ==
    /\ editingCell # Null
    /\ LET target == TabTarget(editingCell.row, editingCell.colIdx, shiftKey)
       IN  DoFocus(Event("tab", editingCell.row, editingCell.colIdx, << >>, shiftKey),
                   target.row, target.colIdx)

\* a handlePaste without the early return on an empty payload
PasteWithoutEmptyCheck(text) ==
    /\ editingCell # Null
    /\ Commit(applyPasteData(rows, editingCell.row, editingCell.colIdx,
                             ParseClipboard(text)),
              TRUE, editingCell,
              Event("paste", editingCell.row, editingCell.colIdx, text, FALSE))

\* handlePaste on the cell editor
Paste(text) ==
    /\ editingCell # Null
    /\ LET event == Event("paste", editingCell.row, editingCell.colIdx, text, FALSE)
       IN  IF text = << >>
           THEN Commit(rows, FALSE, editingCell, event)
           ELSE Commit(applyPasteData(rows, editingCell.row, editingCell.colIdx,
                                      ParseClipboard(text)),
                       TRUE, editingCell, event)

\* an onBlur that drops the text of the cell losing the focus
BlurDiscardingText(relatedIsCell) ==
    /\ editingCell # Null
    /\ Commit(updateCellValue(rows, editingCell.row, ColumnAt(editingCell.colIdx),
                              EmptyText),
              TRUE, IF relatedIsCell THEN editingCell ELSE Null,
              Event("blur", editingCell.row, editingCell.colIdx, << >>, relatedIsCell))

\* an onBlur that clears the focus whatever the related target is
BlurAlways(relatedIsCell) ==
    /\ editingCell # Null
    /\ Commit(rows, FALSE, Null,
              Event("blur", editingCell.row, editingCell.colIdx, << >>, relatedIsCell))

\* onBlur of the cell editor; relatedIsCell: relatedTarget has data-cell-input
Blur(relatedIsCell) ==
    /\ editingCell # Null
    /\ Commit(rows, FALSE, IF relatedIsCell THEN editingCell ELSE Null,
              Event("blur", editingCell.row, editingCell.colIdx, << >>, relatedIsCell))

\* onClick of the "+100 Add Row" button
AddRows ==
    /\ steps < MaxSteps
    /\ Commit(addRows(rows, ADD_ROWS_COUNT), TRUE, editingCell,
              Event("addRows", -1, -1, << >>, FALSE))

\* the events of the grid's cells
CellEvents ==
    \/ \E target \in FocusTargets : FocusCell(target[1], target[2])
    \/ \E value \in EditValues : Change(value)
    \/ KeyEnter
    \/ \E shiftKey \in BOOLEAN : KeyTab(shiftKey)
    \/ \E text \in Clipboards : Paste(text)
    \/ \E relatedIsCell \in BOOLEAN : Blur(relatedIsCell)

Next == CellEvents \/ AddRows

Spec == Init /\ [][Next]_vars

\* the sessions in which the add-rows button is not pressed: the worksheet
\* grows through focusCell and paste only, and stays small
SpecCells == Init /\ [][CellEvents]_vars

(***************************************************************************)
(* Properties.                                                             *)
(***************************************************************************)
Cell(rowIdx, colIdx) == [row |-> rowIdx, colIdx |-> colIdx]

AllEmpty(row) == \A column \in ColumnKey : row[column] = EmptyText

\* the last event was handled by name
Handled(name) == op.name = name

\* C1: every row of the worksheet has an entry for each of the 9 schema
\* columns and no other key, after startup from any stored value and after
\* any sequence of events.
C1_RowShape ==
    /\ Cardinality(ColumnKey) = 9
    /\ \A i \in 1..Len(rows) : DOMAIN rows[i] = ColumnKey

\* startup from a stored row object that lacks schema columns and has a key
\* outside the schema
C1_Witness ==
    /\ Handled("startup")
    /\ op.raw.kind = "json"
    /\ Len(op.raw.json.items) = 1
    /\ op.raw.json.items[1].t = "object"
    /\ "Notes" \in DOMAIN op.raw.json.items[1].fields
    /\ "Suffix" \notin DOMAIN op.raw.json.items[1].fields
    /\ Len(rows) = 1
    /\ rows[1]["Keyword"] = <<"a">>

\* C2: on first run the worksheet has 8 rows, and no event ever makes the
\* worksheet shorter.
C2_NeverShrinks ==
    /\ (op.raw = Absent => Len(rows) = 8)
    /\ [][Len(rows') >= Len(rows)]_vars

\* the first-run worksheet after one add-rows command
C2_Witness ==
    /\ Handled("addRows")
    /\ Len(rows) = 108

\* C3: focusCell(targetRow, targetColumn) with targetRow >= 0 on a worksheet
\* of length L leaves max(L, targetRow + 1) rows, the first L unchanged and
\* the others all-empty, and the focus at (targetRow, targetColumn clamped
\* into 0..8).
C3_FocusCell ==
    [][ (op'.name = "focusCell" /\ op'.row >= 0) =>
          LET L == Len(rows)
              c == IF op'.col < 0 THEN 0 ELSE IF op'.col > 8 THEN 8 ELSE op'.col
          IN  /\ Len(rows') = (IF L > op'.row + 1 THEN L ELSE op'.row + 1)
              /\ \A i \in 1..L : rows'[i] = rows[i]
              /\ \A i \in (L + 1)..Len(rows') : AllEmpty(rows'[i])
              /\ editingCell' = Cell(op'.row, c) ]_vars

\* focusCell(10, 2) on the 8 first-run rows
C3_Witness ==
    /\ Handled("focusCell")
    /\ op.row = 10 /\ op.col = 2
    /\ op.write # "none"
    /\ Len(rows) = 11
    /\ \A i \in 1..11 : AllEmpty(rows[i])
    /\ editingCell = Cell(10, 2)

\* the coordinates whose trimmed, lower-cased text is not empty
FilledCells ==
    { coord \in { Cell(r, c) : r \in 0..(Len(rows) - 1), c \in 0..(ColumnCount - 1) } :
        Trim(CellText(rows, coord.row, coord.colIdx)) # EmptyText }

\* the trimmed, lower-cased texts of two cells are the same
SameNormalized(a, b) ==
    ToLowerCase(Trim(CellText(rows, a.row, a.colIdx)))
        = ToLowerCase(Trim(CellText(rows, b.row, b.colIdx)))

\* C4: isDuplicate(r, c) is true exactly when the cell's normalized value
\* is not empty and at least two coordinates of the worksheet, the cell
\* included, hold that normalized value.  (Coordinates holding a non-empty
\* normalized value all are in FilledCells.)
C4_IsDuplicate ==
    LET filled == FilledCells
        inGroupOfTwo ==
            { coord \in filled :
                Cardinality({ other \in filled : SameNormalized(other, coord) }) >= 2 }
    IN  \A r \in 0..(Len(rows) - 1), c \in 0..(ColumnCount - 1) :
            isDuplicateCell(rows, duplicateLookup, r, ColumnAt(c))
              <=> Cell(r, c) \in inGroupOfTwo

\* two cells in different rows and columns report duplicate, while a cell
\* of blanks and the empty cells do not
C4_Witness ==
    /\ Handled("paste")
    /\ rows[1]["Keyword"] = <<"A">>
    /\ rows[2]["City"] = <<"a">>
    /\ rows[1]["Extensions"] = <<" ">>
    /\ isDuplicateCell(rows, duplicateLookup, 0, "Keyword")
    /\ isDuplicateCell(rows, duplicateLookup, 1, "City")
    /\ ~isDuplicateCell(rows, duplicateLookup, 0, "Extensions")
    /\ ~isDuplicateCell(rows, duplicateLookup, 0, "Prefix")

\* C5: the index every isDuplicate query reads equals a full rebuild of the
\* worksheet as it is now.
C5_IndexFresh == duplicateLookup = BuildLookup(rows)

\* a third matching cell was added to a group of two and was then changed
\* to an unrelated value: it stops reporting duplicate, the two still do
C5_Witness ==
    /\ Handled("change")
    /\ op.row = 0 /\ op.col = 8
    /\ op.text = <<"b">>
    /\ Len(rows) = 2
    /\ ~isDuplicateCell(rows, duplicateLookup, 0, "Extensions")
    /\ isDuplicateCell(rows, duplicateLookup, 0, "Keyword")
    /\ isDuplicateCell(rows, duplicateLookup, 1, "City")

\* row r of worksheet rws, a row past its end being an empty row
RowOrEmpty(rws, r) == IF r < Len(rws) THEN rws[r + 1] ELSE createEmptyRow

\* C6: a paste of grid g at origin (R, C) leaves g[r][c] in cell
\* (R + r, C + c) for every offset with C + c in 0..8, writes a value whose
\* column is outside 0..8 to no cell, and leaves every other cell as it was
\* (a cell of an appended row: empty).
C6_PasteApply ==
    [][ (op'.name = "paste" /\ op'.text # EmptyText) =>
          LET g == ParseClipboard(op'.text)
              R == op'.row
              C == op'.col
              targetRows == { R + r : r \in 0..(Len(g) - 1) }
              isTarget(r, c) == c - C \in 0..(Len(g[r - R + 1]) - 1)
          IN  /\ Len(rows') >= R + Len(g)
              /\ \A r \in (0..(Len(rows') - 1)) \ targetRows :
                    rows'[r + 1] = RowOrEmpty(rows, r)
              /\ \A r \in targetRows, c \in 0..8 :
                    CellText(rows', r, c) =
                        IF isTarget(r, c) THEN g[r - R + 1][c - C + 1]
                        ELSE RowOrEmpty(rows, r)[ColumnAt(c)] ]_vars

\* "a TAB b LF A TAB b" pasted at column 8: a and A land in column 8 of two
\* rows, both b are dropped
C6_Witness ==
    /\ Handled("paste")
    /\ op.row = 0 /\ op.col = 8
    /\ op.text = <<"a", "\t", "b", "\n", "A", "\t", "b">>
    /\ Len(rows) = 8
    /\ rows[1]["Extensions"] = <<"a">>
    /\ rows[2]["Extensions"] = <<"A">>
    /\ \A i \in 1..8, column \in ColumnKey \ {"Extensions"} : rows[i][column] # <<"b">>

\* C7: pasting the same grid again at the same origin leaves the worksheet
\* exactly as the first paste left it.
C7_PasteTwice ==
    [][ (op'.name = "paste" /\ op'.text # EmptyText) =>
          applyPasteData(rows', op'.row, op'.col, ParseClipboard(op'.text)) = rows' ]_vars

\* a paste of two rows at the last row, which grows the worksheet by one
C7_Witness ==
    /\ Handled("paste")
    /\ op.row = 10 /\ op.col = 2
    /\ Len(ParseClipboard(op.text)) = 2
    /\ Len(rows) = 12
    /\ rows[12]["Suffix"] = <<"A">>

\* C8: Tab from focus (r, c): with c < 8 the focus becomes (r, c + 1) and
\* the worksheet length is unchanged; with c = 8 the focus becomes
\* (r + 1, 0) and the worksheet has max(L, r + 2) rows.
C8_TabForward ==
    [][ (op'.name = "tab" /\ ~op'.shift) =>
          LET r == editingCell.row
              c == editingCell.colIdx
              L == Len(rows)
          IN  /\ editingCell # Null
              /\ IF c < 8
                 THEN editingCell' = Cell(r, c + 1) /\ Len(rows') = L
                 ELSE /\ editingCell' = Cell(r + 1, 0)
                      /\ Len(rows') = (IF L > r + 2 THEN L ELSE r + 2) ]_vars

\* Tab in the last column of the only row: the focus wraps to a new row
C8_Witness ==
    /\ Handled("tab") /\ ~op.shift
    /\ op.row = 0 /\ op.col = 8
    /\ op.write # "none"
    /\ editingCell = Cell(1, 0)
    /\ Len(rows) = 2
    /\ AllEmpty(rows[2])

\* C9: Shift+Tab from focus (r, c): with c > 0 the focus becomes (r, c - 1);
\* with c = 0 it becomes (max(0, r - 1), 8); the worksheet is unchanged.
C9_TabBackward ==
    [][ (op'.name = "tab" /\ op'.shift) =>
          LET r == editingCell.row
              c == editingCell.colIdx
          IN  /\ editingCell # Null
              /\ editingCell' = (IF c > 0 THEN Cell(r, c - 1)
                                 ELSE Cell(IF r - 1 > 0 THEN r - 1 ELSE 0, 8))
              /\ editingCell'.row >= 0
              /\ rows' = rows ]_vars

\* Shift+Tab at (0, 0) moves the focus to (0, 8)
C9_Witness ==
    /\ Handled("tab") /\ op.shift
    /\ op.row = 0 /\ op.col = 0
    /\ editingCell = Cell(0, 8)

\* C10: ensureRowExists(targetRow) changes nothing when targetRow is within
\* bounds, appends exactly targetRow - length + 1 empty rows otherwise, and
\* a second call with the same target leaves the worksheet as the first did.
C10_EnsureRowIdempotent ==
    [][ (op'.name = "focusCell" /\ op'.row >= 0) =>
          LET L == Len(rows)
              t == op'.row
          IN  /\ (t < L => rows' = rows)
              /\ (t >= L => /\ Len(rows') = L + (t - L + 1)
                            /\ SubSeq(rows', 1, L) = rows
                            /\ \A i \in (L + 1)..Len(rows') : AllEmpty(rows'[i]))
              /\ ensureRowExists(rows', t) = rows' ]_vars

\* row 10 asked for on a worksheet loaded with one row: ten rows appended
C10_Witness ==
    /\ Handled("focusCell")
    /\ op.row = 10
    /\ Len(rows) = 11
    /\ rows[1]["Keyword"] = <<"a">>
    /\ \A i \in 2..11 : AllEmpty(rows[i])

\* what a successful write of the current worksheet, followed by a startup
\* that reads it, makes of the worksheet
Reloaded == LoadRows(PersistEffect(stored, rows, TRUE))

\* C11: writing the worksheet to the store and starting up from the stored
\* value yields as many rows, in the same order, each with exactly the 9
\* schema columns, every cell holding the trimmed text of the cell written.
C11_RoundTrip ==
    LET reloaded == Reloaded
    IN  /\ Len(reloaded) = Len(rows)
        /\ \A i \in 1..Len(rows) :
              /\ DOMAIN reloaded[i] = ColumnKey
              /\ \A column \in ColumnKey :
                    reloaded[i][column] = Trim(rows[i][column])

\* "A " typed into a cell of a two-row worksheet and written: what startup
\* would read back differs from the worksheet by the trailing blank only
C11_Witness ==
    /\ Handled("change")
    /\ op.write = "ok"
    /\ op.text = <<"A", " ">>
    /\ CellText(rows, op.row, op.col) = <<"A", " ">>
    /\ Len(rows) = 2
    /\ rows[2]["City"] = <<"a">>
    /\ LoadRows(stored) # rows
    /\ CellText(LoadRows(stored), op.row, op.col) = <<"A">>

\* the stored value is one of those the claim lists: absent (or empty),
\* not parseable, not an array, or an empty array
ListedFallback(raw) ==
    \/ raw.kind # "json"
    \/ raw.json.t # "array"
    \/ Len(raw.json.items) = 0

\* the stored array holds an entry that is null
HasNullEntry(raw) ==
    /\ raw.kind = "json"
    /\ raw.json.t = "array"
    /\ \E i \in 1..Len(raw.json.items) : raw.json.items[i].t = "null"

EightEmptyRows ==
    /\ Len(rows) = 8
    /\ \A i \in 1..Len(rows) : DOMAIN rows[i] = ColumnKey /\ AllEmpty(rows[i])

\* C12: at startup, if the stored value is absent, not parseable, not a
\* non-empty array, or holds a null entry (reading a member of it throws,
\* and the throw is caught), the worksheet is exactly 8 all-empty rows;
\* otherwise it has one row per stored entry, in stored order, holding the
\* trimmed text of the entry's members.  Startup leaves the focus unset.
C12_StartupFallback ==
    Handled("startup") =>
        /\ editingCell = Null
        /\ IF ListedFallback(op.raw) \/ HasNullEntry(op.raw)
           THEN EightEmptyRows
           ELSE /\ Len(rows) = Len(op.raw.json.items)
                /\ \A i \in 1..Len(rows), column \in ColumnKey :
                      rows[i][column] = Trim(MemberText(op.raw.json.items[i], column))

\* startup from a stored array of two entries, the second null: 8 empty rows
C12_Witness ==
    /\ Handled("startup")
    /\ HasNullEntry(op.raw)
    /\ Len(op.raw.json.items) = 2
    /\ op.raw.json.items[1].t = "object"
    /\ EightEmptyRows

\* C12 as stated: outside the listed cases the worksheet has one row per
\* stored entry.
C12_AsStated ==
    Handled("startup") =>
        IF ListedFallback(op.raw)
        THEN EightEmptyRows
        ELSE Len(rows) = Len(op.raw.json.items)

\* the model explores one more event from this state
CanStep == steps < MaxSteps

\* the focused cell's editor takes a keystroke edit, a paste event, Enter,
\* Tab and Shift+Tab
AcceptsCommands ==
    /\ ENABLED Change(<<"b">>)
    /\ ENABLED Paste(<< >>)
    /\ ENABLED KeyEnter
    /\ \A shiftKey \in BOOLEAN : ENABLED KeyTab(shiftKey)

\* C13: every event that changes the worksheet attempts a write of the whole
\* worksheet; after a write that succeeds the stored value is the
\* serialization of the current worksheet; a write that fails leaves the
\* stored value as it was and the worksheet and focus as the handler set
\* them (typed text in place, appended row kept, focus moved or kept), and
\* the focused cell still accepts edits, pastes and navigation.
C13_WriteThrough ==
    /\ [](op.write = "ok" => stored = Stringify(rows))
    /\ []((op.write = "failed" /\ editingCell # Null /\ CanStep /\ Len(rows) < MaxRows)
             => AcceptsCommands)
    /\ [][ /\ (rows' # rows => op'.write # "none")
           /\ (op'.write = "failed" =>
                 /\ stored' = stored
                 /\ (op'.name = "change" =>
                       /\ rows' = [rows EXCEPT ![op'.row + 1][ColumnAt(op'.col)] = op'.text]
                       /\ editingCell' = editingCell)
                 /\ (op'.name = "paste" =>
                       /\ rows' = applyPasteData(rows, op'.row, op'.col,
                                                 ParseClipboard(op'.text))
                       /\ editingCell' = editingCell)
                 /\ (op'.name = "enter" =>
                       /\ Len(rows') = Len(rows) + 1
                       /\ editingCell' = Cell(op'.row + 1, op'.col))) ]_vars

\* "b" typed while the write throws: the cell holds "b", the focus stays, the
\* store still holds the worksheet written before
C13_Witness ==
    /\ Handled("change")
    /\ op.write = "failed"
    /\ op.text = <<"b">>
    /\ CellText(rows, op.row, op.col) = <<"b">>
    /\ editingCell = Cell(op.row, op.col)
    /\ stored.kind = "json"
    /\ stored # Stringify(rows)
    /\ CellText(LoadRows(stored), op.row, op.col) = << >>

\* C14: a paste event with an empty clipboard payload changes nothing: the
\* worksheet (length and every cell), the focus, the duplicate index and the
\* stored value are as before, and no write is attempted.
C14_EmptyPaste ==
    [][ (op'.name = "paste" /\ op'.text = << >>) =>
          /\ rows' = rows
          /\ editingCell' = editingCell
          /\ duplicateLookup' = duplicateLookup
          /\ stored' = stored
          /\ op'.write = "none" ]_vars

\* an empty payload pasted into a focused cell that holds text: the text stays
C14_Witness ==
    /\ Handled("paste")
    /\ op.text = << >>
    /\ editingCell = Cell(op.row, op.col)
    /\ CellText(rows, op.row, op.col) # EmptyText
    /\ stored.kind = "json"

\* C15: the focus is unset at startup; a step takes the focus from set to
\* unset only if it is a blur whose related target is not a cell editor of
\* the grid, and every such blur does; a blur whose related target is a cell
\* editor leaves the focus as it was.
C15_BlurOnly ==
    /\ editingCell = Null
    /\ [][ /\ ((editingCell # Null /\ editingCell' = Null)
                 => (op'.name = "blur" /\ ~op'.shift))
           /\ ((op'.name = "blur" /\ ~op'.shift) => editingCell' = Null)
           /\ ((op'.name = "blur" /\ op'.shift)
                 => (editingCell' = editingCell /\ editingCell' # Null)) ]_vars

\* the editor of cell (0, 8) loses the focus to something outside the grid
C15_Witness ==
    /\ Handled("blur")
    /\ ~op.shift
    /\ op.row = 0 /\ op.col = 8
    /\ editingCell = Null
    /\ steps = 2

\* C16: Enter pressed with the focus at (r, c) does what focusCell(r + 1, c)
\* does: the focus becomes (r + 1, c), the worksheet has max(L, r + 2) rows,
\* the rows it had are unchanged, and at most one row, all-empty, is appended
\* (exactly one when r is the last row).
C16_Enter ==
    [][ op'.name = "enter" =>
          LET r == editingCell.row
              c == editingCell.colIdx
              L == Len(rows)
          IN  /\ editingCell # Null
              /\ op'.row = r /\ op'.col = c
              /\ editingCell' = Cell(r + 1, c)
              /\ Len(rows') = (IF L > r + 2 THEN L ELSE r + 2)
              /\ Len(rows') - L \in {0, 1}
              /\ (r = L - 1 => Len(rows') = L + 1)
              /\ SubSeq(rows', 1, L) = rows
              /\ \A i \in (L + 1)..Len(rows') : AllEmpty(rows'[i])
              /\ rows' = FocusRows(rows, r + 1)
              /\ editingCell' = FocusEditing(editingCell, r + 1, c) ]_vars

\* Enter in the last row of a two-row worksheet that holds text: a third,
\* empty row is appended and takes the focus in the same column
C16_Witness ==
    /\ Handled("enter")
    /\ op.row = 1
    /\ Len(rows) = 3
    /\ rows[2]["City"] = <<"a">>
    /\ AllEmpty(rows[3])
    /\ editingCell = Cell(2, op.col)
    /\ op.write # "none"

\* C17: a paste of n >= 1 parsed rows at start row R into a worksheet of L
\* rows leaves exactly max(L, R + n) rows; a row the paste appends is empty
\* in every column the paste does not write (the columns outside
\* C .. C + width - 1 of its grid row, clipped to the schema); a paste that
\* fits inside the rows there are leaves the length as it was.
C17_PasteGrowth ==
    [][ (op'.name = "paste" /\ op'.text # << >>) =>
          LET grid == ParseClipboard(op'.text)
              n == Len(grid)
              R == op'.row
              C == op'.col
              L == Len(rows)
          IN  /\ n >= 1
              /\ R = editingCell.row /\ C = editingCell.colIdx
              /\ Len(rows') = (IF L > R + n THEN L ELSE R + n)
              /\ (R + n <= L => Len(rows') = L)
              /\ \A i \in (L + 1)..Len(rows') :
                    \A colIdx \in 0..(ColumnCount - 1) :
                        LET width == Len(grid[i - R])
                        IN  IF colIdx >= C /\ colIdx < C + width
                            THEN rows'[i][ColumnAt(colIdx)] = grid[i - R][colIdx - C + 1]
                            ELSE rows'[i][ColumnAt(colIdx)] = EmptyText ]_vars

\* two lines of two values pasted at (0, 8) of a one-row worksheet: one row
\* is appended, holding the second line's first value in the last column
\* and nothing else
C17_Witness ==
    /\ Handled("paste")
    /\ Len(ParseClipboard(op.text)) = 2
    /\ op.row = 0 /\ op.col = 8
    /\ Len(rows) = 2
    /\ rows[2]["Extensions"] = <<"A">>
    /\ \A column \in ColumnKey \ {"Extensions"} : rows[2][column] = EmptyText

\* C18: focusCell, Enter, Tab, Shift+Tab and blur leave every cell the
\* worksheet has as it was and can only append all-empty rows; a keystroke
\* edit puts the typed text into the focused cell at once (and changes no
\* other cell), so the text is there whatever focus change follows.
C18_FocusKeepsText ==
    [][ /\ (op'.name \in {"focusCell", "enter", "tab", "blur"} =>
              /\ Len(rows') >= Len(rows)
              /\ SubSeq(rows', 1, Len(rows)) = rows
              /\ \A i \in (Len(rows) + 1)..Len(rows') : AllEmpty(rows'[i])
              /\ (op'.name = "blur" => rows' = rows))
        /\ (op'.name = "change" =>
              /\ op'.row = editingCell.row /\ op'.col = editingCell.colIdx
              /\ Len(rows') = Len(rows)
              /\ \A i \in 1..Len(rows), column \in ColumnKey :
                    rows'[i][column] =
                        (IF i = op'.row + 1 /\ column = ColumnAt(op'.col)
                         THEN op'.text ELSE rows[i][column])) ]_vars

\* "A " was typed into a cell and its editor then lost the focus to
\* something outside the grid: the cell still holds "A ", untrimmed
C18_Witness ==
    /\ Handled("blur")
    /\ ~op.shift
    /\ editingCell = Null
    /\ CellText(rows, op.row, op.col) = <<"A", " ">>

\* C19: in every reachable state the focus is unset or is one cell (r, c)
\* with 0 <= r < number of rows and 0 <= c <= 8, so the focused cell exists
\* and its row has an entry for its column.
C19_FocusValid ==
    \/ editingCell = Null
    \/ /\ editingCell.row \in 0..(Len(rows) - 1)
       /\ editingCell.colIdx \in 0..8
       /\ ColumnAt(editingCell.colIdx) \in DOMAIN rows[editingCell.row + 1]

\* Enter pressed in row 10, the last of 11 rows: the focus is on row 11 of a
\* worksheet that now has 12
C19_Witness ==
    /\ Handled("enter")
    /\ op.row = 10
    /\ editingCell = Cell(11, 2)
    /\ Len(rows) = 12

\* C20: for the worksheet as it is and the worksheet a write followed by a
\* startup would give, isDuplicateCell answers the same for every cell:
\* the trim on load creates no duplicate group and removes none.
C20_ReloadKeepsDuplicates ==
    LET reloaded == Reloaded
        reloadedLookup == BuildLookup(reloaded)
    IN  /\ Len(reloaded) = Len(rows)
        /\ \A i \in 1..Len(rows), column \in ColumnKey :
              isDuplicateCell(reloaded, reloadedLookup, i - 1, column)
                = isDuplicateCell(rows, duplicateLookup, i - 1, column)

\* the focused cell holds "A " and another cell "a": the two are duplicates
\* before the reload, which turns "A " into "A", and after it
C20_Witness ==
    /\ editingCell # Null
    /\ Len(rows) = 2
    /\ CellText(rows, editingCell.row, editingCell.colIdx) = <<"A", " ">>
    /\ rows[2]["City"] = <<"a">>
    /\ isDuplicateCell(rows, duplicateLookup, 1, "City")
    /\ isDuplicateCell(rows, duplicateLookup, editingCell.row,
                       ColumnAt(editingCell.colIdx))
    /\ Reloaded # rows
    /\ CellText(Reloaded, editingCell.row, editingCell.colIdx) = <<"A">>
    /\ isDuplicateCell(Reloaded, BuildLookup(Reloaded), editingCell.row,
                       ColumnAt(editingCell.colIdx))

====
